---- MODULE Spec2Model ----
(***************************************************************************)
(* Model of the tile-lang kernel launch scope (tilelang/language/kernel.py),*)
(* the target resolver (tilelang/utils/target.py), the tolerant tensor     *)
(* comparison (tilelang/utils/tensor.py) and the brute-force configuration *)
(* space of benchmark/benchmark_matmul.py.                                 *)
(***************************************************************************)
EXTENDS Integers, Sequences, FiniteSets, TLC

VARIABLES
    obj,      \* the KernelLaunchFrame objects: obj[s].frames is self.frames
    stack,    \* _kernel_launch_frame_stack._stack, bottom first
    entered,  \* entered[s]: number of super().__enter__() calls on s
    closed,   \* closed[s]: number of super().__exit__() calls on s
    hist,     \* the calls made on the scopes so far, oldest first
    ret,      \* outcome of the last call: what it returned or raised
    env,      \* what the CUDA / ROCm path lookups find on this system
    kcall,    \* arguments of the last call of Kernel
    launch,   \* the call of _ffi_api.KernelLaunch made by the last call of Kernel
    tensors   \* tensor_a and tensor_b, as runs of equal element pairs

vars == <<obj, stack, entered, closed, hist, ret, env, kcall, launch, tensors>>

(* ------------------------------ bounds --------------------------------- *)

NumScopes == 3
MaxOps == 5
MaxThreadsLen == 4

Scopes == 1..NumScopes

(* ------------------------- program constants --------------------------- *)

MaxBlockDims == 3
SingleBlockFrames == 5
TrailingFrames == 4
ThreadDims == 3
DefaultThreads == 128
WarpSize == 32

None == "None"

Return(v) == [kind |-> "return", val |-> v]
Raise(e) == [kind |-> "raise", val |-> e]

(* ------------------------------ FrameStack ----------------------------- *)

push(stk, item) == Append(stk, item)

pop_front(stk) ==
    IF Len(stk) > 0
    THEN [kind |-> "return", val |-> stk[1], stk |-> Tail(stk)]
    ELSE [kind |-> "raise", val |-> "IndexError", stk |-> stk]

pop(stk) ==
    IF Len(stk) > 0
    THEN [kind |-> "return", val |-> stk[Len(stk)],
          stk |-> SubSeq(stk, 1, Len(stk) - 1)]
    ELSE [kind |-> "raise", val |-> "IndexError", stk |-> stk]

top(stk) ==
    IF Len(stk) > 0 THEN Return(stk[Len(stk)]) ELSE Raise("IndexError")

(* --------------------- frames of a launch scope ------------------------ *)

BlockVars == <<"bx", "by", "bz">>
ThreadVars == <<"tx", "ty", "tz">>

Ones(k) == [i \in 1..k |-> 1]

\* _ffi_api.KernelLaunch: one record per block extent, then thread-x,
\* thread-y, thread-z and one auxiliary record; at most three extents each.
KernelLaunch(blocks, threads, attrs) ==
    IF Len(blocks) > MaxBlockDims \/ Len(threads) > ThreadDims
    THEN Raise("TVMError")
    ELSE Return([frames |->
            [i \in 1..Len(blocks) |->
                [kind |-> "block", var |-> BlockVars[i], extent |-> blocks[i]]]
            \o [i \in 1..Len(threads) |->
                [kind |-> "thread", var |-> ThreadVars[i], extent |-> threads[i]]]
            \o << [kind |-> "aux", var |-> "none", extent |-> 0] >>,
          attrs |-> attrs])

threads_pad_left(threads) ==
    IF threads.type = "int" THEN Return(<<1, 1, threads.v[1]>>)
    ELSE IF threads.type = "list" THEN Return(Ones(3 - Len(threads.v)) \o threads.v)
    ELSE IF threads.type = "tuple" THEN Return(Ones(3 - Len(threads.v)) \o threads.v)
    ELSE Raise("ValueError")

\* the isinstance chain of Kernel: the extents handed on, or ValueError
threads_list(threads) ==
    IF threads.type = "int" THEN Return(<<threads.v[1], 1, 1>>)
    ELSE IF threads.type = "list" THEN Return(threads.v \o Ones(3 - Len(threads.v)))
    ELSE IF threads.type = "tuple" THEN Return(threads.v \o Ones(3 - Len(threads.v)))
    ELSE Raise("ValueError")

kernel_attrs(prelude) ==
    IF prelude # None THEN {<<"pragma_import_c", prelude>>} ELSE {}

enter_result_four(frames) ==
    IF Len(frames) = TrailingFrames
    THEN [single |-> TRUE, vars |-> <<frames[1].var>>]
    ELSE [single |-> FALSE,
          vars |-> [i \in 1..(Len(frames) - TrailingFrames) |-> frames[i].var]]

\* what __enter__ returns: one Var, or the list of the block Vars
enter_result(frames) ==
    IF Len(frames) = SingleBlockFrames
    THEN [single |-> TRUE, vars |-> <<frames[1].var>>]
    ELSE [single |-> FALSE,
          vars |-> [i \in 1..(Len(frames) - TrailingFrames) |-> frames[i].var]]

get_block_extent(frames, dim) == frames[dim + 1].extent

get_thread_extent_shifted(frames, dim) ==
    frames[Len(frames) - TrailingFrames + dim + 2].extent

get_thread_extent(frames, dim) ==
    frames[Len(frames) - TrailingFrames + dim + 1].extent

RECURSIVE num_threads_loop(_, _, _)
num_threads_loop(frames, thread_dim, num_threads) ==
    IF thread_dim >= ThreadDims THEN num_threads
    ELSE num_threads_loop(frames, thread_dim + 1,
                          num_threads * get_thread_extent(frames, thread_dim))

get_num_threads(frames) == num_threads_loop(frames, 0, 1)

blocks(frames) ==
    [i \in 1..(Len(frames) - TrailingFrames) |-> frames[i].var]

(* -------------------------- inputs of Kernel --------------------------- *)

BlockVals == {4, 8}
ThreadVals == {2, 64}

SeqsUpTo(S, n) == UNION {[1..k -> S] : k \in 0..n}

BlockArgs == UNION {[1..k -> BlockVals] : k \in 1..MaxBlockDims}

IntThreads(t) == [type |-> "int", v |-> <<t>>]
ListThreads(l) == [type |-> "list", v |-> l]
TupleThreads(l) == [type |-> "tuple", v |-> l]

ThreadLists == SeqsUpTo(ThreadVals, MaxThreadsLen) \cup {<<64, 2, 1>>}

ThreadArgs ==
    {IntThreads(t) : t \in {DefaultThreads, 64}}
    \cup {ListThreads(l) : l \in ThreadLists}
    \cup {TupleThreads(l) : l \in ThreadLists}
    \cup {[type |-> "str", v |-> <<>>]}

Preludes == {None, "#include <x.h>"}

NoObject == [alive |-> FALSE, frames |-> <<>>]
NoCall == [called |-> FALSE, blocks |-> <<>>, threads |-> <<>>, attrs |-> {}]
NoRet == [op |-> "none", kind |-> "return", val |-> None]

\* the scopes of the nesting runs were opened by these calls of Kernel
SampleCalls ==
    << [blocks |-> <<8>>, threads |-> IntThreads(DefaultThreads)],
       [blocks |-> <<8, 4>>, threads |-> ListThreads(<<64, 2, 1>>)],
       [blocks |-> <<8, 8>>, threads |-> IntThreads(DefaultThreads)] >>

SampleObject(s) ==
    LET c == SampleCalls[((s - 1) % Len(SampleCalls)) + 1]
    IN  [alive |-> TRUE,
         frames |-> KernelLaunch(c.blocks, threads_list(c.threads).val, {}).val.frames]

(* ------------------------------ operations ----------------------------- *)

\* Kernel(*blocks, threads=..., prelude=...) building the object s
Kernel(s, blks, threads, prelude) ==
    /\ ~obj[s].alive
    /\ kcall' = [blocks |-> blks, threads |-> threads, prelude |-> prelude]
    /\ LET t == threads_list(threads)
           r == KernelLaunch(blks, t.val, kernel_attrs(prelude))
       IN  IF t.kind = "raise"
           THEN /\ ret' = [op |-> "Kernel", kind |-> "raise", val |-> t.val]
                /\ launch' = NoCall
                /\ UNCHANGED obj
           ELSE /\ launch' = [called |-> TRUE, blocks |-> blks,
                              threads |-> t.val, attrs |-> kernel_attrs(prelude)]
                /\ IF r.kind = "raise"
                   THEN /\ ret' = [op |-> "Kernel", kind |-> "raise", val |-> r.val]
                        /\ UNCHANGED obj
                   ELSE /\ ret' = [op |-> "Kernel", kind |-> "return", val |-> s]
                        /\ obj' = [obj EXCEPT ![s] =
                                     [alive |-> TRUE, frames |-> r.val.frames]]
    /\ UNCHANGED <<stack, entered, closed, hist, env, tensors>>

\* KernelLaunchFrame.__enter__
Enter(s) ==
    /\ obj[s].alive
    /\ Len(hist) < MaxOps
    /\ entered' = [entered EXCEPT ![s] = @ + 1]
    /\ stack' = push(stack, s)
    /\ ret' = [op |-> "enter", kind |-> "return", val |-> enter_result(obj[s].frames)]
    /\ hist' = Append(hist, <<"enter", s>>)
    /\ UNCHANGED <<obj, closed, env, kcall, launch, tensors>>

exit_pops_always(stk, s) == Len(stk) > 0

\* the test of __exit__: _kernel_launch_frame_stack.top() is self
exit_pops(stk, s) == top(stk).val = s

\* KernelLaunchFrame.__exit__
Exit(s) ==
    /\ obj[s].alive
    /\ Len(hist) < MaxOps
    /\ hist' = Append(hist, <<"exit", s>>)
    /\ IF top(stack).kind = "raise"
       THEN /\ ret' = [op |-> "exit", kind |-> "raise", val |-> top(stack).val]
            /\ UNCHANGED <<stack, closed>>
       ELSE /\ stack' = IF exit_pops(stack, s) THEN pop(stack).stk ELSE stack
            /\ closed' = [closed EXCEPT ![s] = @ + 1]
            /\ ret' = [op |-> "exit", kind |-> "return", val |-> None]
    /\ UNCHANGED <<obj, entered, env, kcall, launch, tensors>>

\* KernelLaunchFrame.Current
Current ==
    /\ Len(hist) < MaxOps
    /\ hist' = Append(hist, <<"current", 0>>)
    /\ ret' = [op |-> "Current", kind |-> top(stack).kind, val |-> top(stack).val]
    /\ UNCHANGED <<obj, stack, entered, closed, env, kcall, launch, tensors>>

(* ---------------------------- target resolver -------------------------- *)

ProbeOutcomes == {"found", "RuntimeError", "OSError"}

StrTarget(v) == [type |-> "str", v |-> v]
TargetObject(v) == [type |-> "Target", v |-> v]

TargetArgs ==
    {StrTarget(v) : v \in {"auto", "cuda", "hip", "llvm", "rocm", "CUDA", ""}}
    \cup {TargetObject(v) : v \in {"cuda", "hip", "llvm"}}
    \cup {[type |-> "NoneType", v |-> "None"]}

\* try: nvcc.find_cuda_path(); return True / except Exception: return False
check_cuda_availability(e) == IF e.cuda = "found" THEN TRUE ELSE FALSE

check_hip_availability(e) == IF e.hip = "found" THEN TRUE ELSE FALSE

determine_target_hip_first(target, e) ==
    IF target.type = "str" /\ target.v = "auto"
    THEN LET is_cuda_available == check_cuda_availability(e)
             is_hip_available == check_hip_availability(e)
         IN  IF is_hip_available
             THEN [kind |-> "return", val |-> StrTarget("hip"), probed |-> <<"cuda", "hip">>]
             ELSE IF is_cuda_available
             THEN [kind |-> "return", val |-> StrTarget("cuda"), probed |-> <<"cuda", "hip">>]
             ELSE [kind |-> "raise", val |-> StrTarget("ValueError"),
                   probed |-> <<"cuda", "hip">>]
    ELSE IF target.type = "Target"
            \/ (target.type = "str" /\ target.v \in {"cuda", "hip"})
         THEN [kind |-> "return", val |-> target, probed |-> <<>>]
         ELSE [kind |-> "raise", val |-> StrTarget("AssertionError"), probed |-> <<>>]

determine_target_any_str(target, e) ==
    IF target.type = "str" /\ target.v = "auto"
    THEN LET is_cuda_available == check_cuda_availability(e)
             is_hip_available == check_hip_availability(e)
         IN  IF is_cuda_available
             THEN [kind |-> "return", val |-> StrTarget("cuda"), probed |-> <<"cuda", "hip">>]
             ELSE IF is_hip_available
             THEN [kind |-> "return", val |-> StrTarget("hip"), probed |-> <<"cuda", "hip">>]
             ELSE [kind |-> "raise", val |-> StrTarget("ValueError"),
                   probed |-> <<"cuda", "hip">>]
    ELSE IF target.type = "Target" \/ target.type = "str"
         THEN [kind |-> "return", val |-> target, probed |-> <<>>]
         ELSE [kind |-> "raise", val |-> StrTarget("AssertionError"), probed |-> <<>>]

determine_target(target, e) ==
    IF target.type = "str" /\ target.v = "auto"
    THEN LET is_cuda_available == check_cuda_availability(e)
             is_hip_available == check_hip_availability(e)
         IN  IF is_cuda_available
             THEN [kind |-> "return", val |-> StrTarget("cuda"), probed |-> <<"cuda", "hip">>]
             ELSE IF is_hip_available
             THEN [kind |-> "return", val |-> StrTarget("hip"), probed |-> <<"cuda", "hip">>]
             ELSE [kind |-> "raise", val |-> StrTarget("ValueError"),
                   probed |-> <<"cuda", "hip">>]
    ELSE IF target.type = "Target"
            \/ (target.type = "str" /\ target.v \in {"cuda", "hip"})
         THEN [kind |-> "return", val |-> target, probed |-> <<>>]
         ELSE [kind |-> "raise", val |-> StrTarget("AssertionError"), probed |-> <<>>]

DetermineTarget(target) ==
    /\ LET r == determine_target(target, env)
       IN  ret' = [op |-> "determine_target", arg |-> target, kind |-> r.kind,
                   val |-> r.val, probed |-> r.probed]
    /\ UNCHANGED <<obj, stack, entered, closed, hist, env, kcall, launch, tensors>>

(* ------------------------ configuration space -------------------------- *)

block_M == <<64, 128, 256>>
block_N == <<64, 128, 256>>
block_K == <<32, 64>>
num_stages == <<0, 1, 2, 3>>
thread_num == <<128, 256>>
enable_rasterization == <<TRUE, FALSE>>

\* itertools.product: the tuples in order, the last list varying fastest
RECURSIVE product(_)
product(lists) ==
    IF Len(lists) = 0 THEN << <<>> >>
    ELSE LET first == Head(lists)
             rest == product(Tail(lists))
             n == Len(rest)
         IN  [k \in 1..(Len(first) * n) |->
                <<first[((k - 1) \div n) + 1]>> \o rest[((k - 1) % n) + 1]]

config_of(c) ==
    [block_M |-> c[1], block_N |-> c[2], block_K |-> c[3],
     num_stages |-> c[4], thread_num |-> c[5], enable_rasteration |-> c[6]]

config_of_hint(hint) ==
    [block_M |-> hint.block[1], block_N |-> hint.block[2],
     block_K |-> hint.rstep[1], num_stages |-> 0,
     thread_num |->
        ((hint.block[1] * hint.block[2]) \div (hint.warp[1] * hint.warp[2])) * WarpSize,
     enable_rasteration |-> hint.rasterization_plan # "NoRasterization"]

get_configs_no_false(M, N, K, with_roller, roller) ==
    IF with_roller
    THEN IF roller.kind = "ImportError" THEN Raise("ImportError")
         ELSE IF roller.kind = "None" THEN Raise("ValueError")
         ELSE Return([i \in 1..Len(roller.hints) |-> config_of_hint(roller.hints[i])])
    ELSE LET _configs == product(<<block_M, block_N, block_K, num_stages,
                                   thread_num, <<TRUE, TRUE>> >>)
         IN  Return([i \in 1..Len(_configs) |-> config_of(_configs[i])])

get_configs(M, N, K, with_roller, roller) ==
    IF with_roller
    THEN IF roller.kind = "ImportError" THEN Raise("ImportError")
         ELSE IF roller.kind = "None" THEN Raise("ValueError")
         ELSE Return([i \in 1..Len(roller.hints) |-> config_of_hint(roller.hints[i])])
    ELSE LET _configs == product(<<block_M, block_N, block_K, num_stages,
                                   thread_num, enable_rasterization>>)
         IN  Return([i \in 1..Len(_configs) |-> config_of(_configs[i])])

Dims == {256, 8192}

SampleHints ==
    << [block |-> <<128, 256>>, warp |-> <<64, 64>>, rstep |-> <<32>>,
        rasterization_plan |-> "NoRasterization"],
       [block |-> <<64, 64>>, warp |-> <<32, 32>>, rstep |-> <<64>>,
        rasterization_plan |-> "Rasterization2DColumn"] >>

RollerAbsent == [kind |-> "ImportError", hints |-> <<>>]

RollerOutcomes ==
    {RollerAbsent, [kind |-> "None", hints |-> <<>>]}
    \cup {[kind |-> "hints", hints |-> SubSeq(SampleHints, 1, k)] :
            k \in 0..Len(SampleHints)}

GetConfigs(M, N, K, with_roller, roller) ==
    /\ LET r == get_configs(M, N, K, with_roller, roller)
       IN  ret' = [op |-> "get_configs", arg |-> <<M, N, K>>,
                   with_roller |-> with_roller, kind |-> r.kind, val |-> r.val]
    /\ UNCHANGED <<obj, stack, entered, closed, hist, env, kcall, launch, tensors>>

(* --------------------------- tensor comparison ------------------------- *)

\* A pair of tensors of one shape is a sequence of runs: run.n elements
\* whose value is run.a in tensor_a and run.b in tensor_b.  Tolerances and
\* the ratio are fractions num / den with den > 0.

Frac(num, den) == [num |-> num, den |-> den]

Abs(x) == IF x < 0 THEN -x ELSE x

\* int(x) of a fraction: truncation toward zero
int(num, den) == IF num >= 0 THEN num \div den ELSE -((-num) \div den)

\* diff > max_diff, with diff = |a - b| and max_diff = atol + rtol * |b|
is_mismatched(a, b, rtol, atol) ==
    Abs(a - b) * atol.den * rtol.den
        > atol.num * rtol.den + rtol.num * Abs(b) * atol.den

RECURSIVE sum_mismatched(_, _, _)
sum_mismatched(runs, rtol, atol) ==
    IF Len(runs) = 0 THEN 0
    ELSE (IF is_mismatched(Head(runs).a, Head(runs).b, rtol, atol)
          THEN Head(runs).n ELSE 0)
         + sum_mismatched(Tail(runs), rtol, atol)

RECURSIVE numel(_)
numel(runs) == IF Len(runs) = 0 THEN 0 ELSE Head(runs).n + numel(Tail(runs))

torch_assert_close_ge(runs, rtol, atol, max_mismatched_ratio) ==
    LET num_mismatched == sum_mismatched(runs, rtol, atol)
        total_elements == numel(runs)
        max_allowed_mismatched ==
            int(total_elements * max_mismatched_ratio.num, max_mismatched_ratio.den)
    IN  IF num_mismatched >= max_allowed_mismatched
        THEN Raise("AssertionError")
        ELSE Return(TRUE)

torch_assert_close(runs, rtol, atol, max_mismatched_ratio) ==
    LET num_mismatched == sum_mismatched(runs, rtol, atol)
        total_elements == numel(runs)
        max_allowed_mismatched ==
            int(total_elements * max_mismatched_ratio.num, max_mismatched_ratio.den)
    IN  IF num_mismatched > max_allowed_mismatched
        THEN Raise("AssertionError")
        ELSE Return(TRUE)

default_rtol == Frac(1, 100)
default_atol == Frac(1, 1000)
default_max_mismatched_ratio == Frac(1, 1000)

MaxRuns == 2

ElementVals == {1, 5000}
Perturbations == {0, 10}
RunLengths == {1, 2, 98, 99999}

Runs ==
    {[a |-> a, b |-> a + d, n |-> n] :
        a \in ElementVals, d \in Perturbations, n \in RunLengths}

TensorPairs == UNION {[1..k -> Runs] : k \in 0..MaxRuns}

Tolerances ==
    {[rtol |-> default_rtol, atol |-> default_atol],
     [rtol |-> Frac(0, 1), atol |-> Frac(0, 1)]}

Ratios == {default_max_mismatched_ratio, Frac(0, 1), Frac(1, 50)}

NoTensors == <<>>

TorchAssertClose(rtol, atol, max_mismatched_ratio) ==
    /\ LET r == torch_assert_close(tensors, rtol, atol, max_mismatched_ratio)
       IN  ret' = [op |-> "torch_assert_close", rtol |-> rtol, atol |-> atol,
                   max_mismatched_ratio |-> max_mismatched_ratio,
                   kind |-> r.kind, val |-> r.val]
    /\ UNCHANGED <<obj, stack, entered, closed, hist, env, kcall, launch, tensors>>

(* ------------------------------ properties ----------------------------- *)

Last(q) == q[Len(q)]
Front(q) == SubSeq(q, 1, Len(q) - 1)

\* The scopes open after the calls h, oldest first, and whether every exit
\* in h was of the scope entered last among those still open.
RECURSIVE OpenAfter(_)
OpenAfter(h) ==
    IF Len(h) = 0 THEN [ok |-> TRUE, open |-> <<>>]
    ELSE LET prev == OpenAfter(Front(h))
             e == Last(h)
         IN  IF e[1] = "enter"
             THEN [ok |-> prev.ok, open |-> Append(prev.open, e[2])]
             ELSE IF e[1] = "exit"
             THEN IF Len(prev.open) > 0 /\ Last(prev.open) = e[2]
                  THEN [ok |-> prev.ok, open |-> Front(prev.open)]
                  ELSE [ok |-> FALSE, open |-> prev.open]
             ELSE prev

\* C1: after any properly nested sequence of enters and exits the stack
\* depth is the number of open scopes, the top of the stack (what Current
\* returns) is the scope entered last among those still open, and the stack
\* is empty once every scope has exited.
C1_NestedScopesAreLifo ==
    LET r == OpenAfter(hist)
    IN  r.ok =>
          /\ Len(stack) = Len(r.open)
          /\ Len(r.open) = 0 => stack = <<>>
          /\ Len(r.open) > 0 => top(stack) = Return(Last(r.open))
          /\ (Len(r.open) > 0 /\ Len(hist) > 0 /\ Last(hist)[1] = "current")
                => (ret.kind = "return" /\ ret.val = Last(r.open))

\* enter A, enter B, exit B, Current: Current returns A
C1_Witness ==
    /\ Len(hist) = 4
    /\ hist[1][1] = "enter" /\ hist[2][1] = "enter"
    /\ hist[1][2] # hist[2][2]
    /\ hist[3] = <<"exit", hist[2][2]>>
    /\ hist[4][1] = "current"
    /\ ret.op = "Current" /\ ret.kind = "return" /\ ret.val = hist[1][2]
    /\ stack = <<hist[1][2]>>

\* C2: Current() called on the empty stack returns None instead of failing,
\* and leaves the stack empty.
C2_CurrentOnEmptyStackReturnsNone ==
    (ret.op = "Current" /\ Len(stack) = 0)
        => (ret.kind = "return" /\ ret.val = None /\ stack = <<>>)

\* C3: an exit of scope s removes exactly the top entry when s is the top
\* of the stack, and leaves the stack unchanged otherwise.
C3_ExitPopsOnlyTheTop ==
    [][\A s \in Scopes :
          hist' = Append(hist, <<"exit", s>>) =>
             IF Len(stack) > 0 /\ Last(stack) = s
             THEN stack' = Front(stack)
             ELSE stack' = stack]_vars

\* enter A, enter B, exit A: A is not the top, and the stack keeps <<A, B>>
C3_Witness ==
    /\ Len(hist) = 3
    /\ hist[1][1] = "enter" /\ hist[2][1] = "enter"
    /\ hist[1][2] # hist[2][2]
    /\ hist[3] = <<"exit", hist[1][2]>>
    /\ stack = <<hist[1][2], hist[2][2]>>

\* C4: every call of a scope's exit runs the parent frame's exit, whatever
\* the state of the stack.
C4_EveryExitClosesTheScope ==
    [][\A s \in Scopes :
          hist' = Append(hist, <<"exit", s>>) => closed'[s] = closed[s] + 1]_vars

\* C5: a scope opened with n block extents has n + 4 frames (n block
\* records, thread-x, thread-y, thread-z, one auxiliary record); entering it
\* returns the one block variable directly iff n = 1, and otherwise the list
\* of the n block variables in declaration order, equal to `blocks`.
C5_FramesAndEnterResult ==
    obj[1].alive =>
        LET n == Len(kcall.blocks)
            f == obj[1].frames
        IN  /\ n \in 1..MaxBlockDims
            /\ Len(f) = n + 4
            /\ \A i \in 1..n : f[i].kind = "block" /\ f[i].extent = kcall.blocks[i]
            /\ <<f[n + 1].var, f[n + 2].var, f[n + 3].var>> = <<"tx", "ty", "tz">>
            /\ f[n + 4].kind = "aux"
            /\ ret.op = "enter" =>
                 /\ ret.val.single <=> n = 1
                 /\ ret.val.single <=> Len(f) = 5
                 /\ n = 1 => ret.val.vars = <<f[1].var>>
                 /\ n # 1 => /\ Len(ret.val.vars) = n
                             /\ ret.val.vars = blocks(f)
                             /\ \A i \in 1..n : ret.val.vars[i] = f[i].var

\* Kernel(8, 4, threads=[64, 2, 1]) entered: 6 frames, a list of 2 variables
C5_Witness ==
    /\ obj[1].alive
    /\ kcall.blocks = <<8, 4>>
    /\ kcall.threads = ListThreads(<<64, 2, 1>>)
    /\ ret.op = "enter"
    /\ Len(obj[1].frames) = 6
    /\ ~ret.val.single
    /\ ret.val.vars = <<"bx", "by">>

C6_Case ==
    /\ obj[1].alive
    /\ kcall.blocks = <<8, 8>>
    /\ kcall.threads = IntThreads(128)
    /\ entered[1] > 0

\* C6 as stated: the scope opened by Kernel(8, 8, threads=128) and entered
\* has exactly 5 frames, get_block_extent(0) = 8 and get_num_threads() = 128.
C6_KernelEightEightHasFiveFrames ==
    C6_Case =>
        /\ Len(obj[1].frames) = 5
        /\ get_block_extent(obj[1].frames, 0) = 8
        /\ get_num_threads(obj[1].frames) = 128

\* C6 amended: the scope opened by Kernel(8, 8, threads=128) and entered has
\* exactly 6 frames (2 block records and 4 trailing records),
\* get_block_extent(0) = 8 and get_num_threads() = 128.
C6_KernelEightEightHasSixFrames ==
    C6_Case =>
        /\ Len(obj[1].frames) = 6
        /\ get_block_extent(obj[1].frames, 0) = 8
        /\ get_num_threads(obj[1].frames) = 128

C6_Witness == C6_Case /\ ret.op = "enter" /\ Len(stack) = 1

\* the three extents the argument `threads` stands for
PaddedThreads(threads) ==
    IF threads.type = "int" THEN <<threads.v[1], 1, 1>>
    ELSE [i \in 1..3 |-> IF i <= Len(threads.v) THEN threads.v[i] ELSE 1]

C8_AutoTarget ==
    (ret.op = "determine_target" /\ ret.arg = StrTarget("auto")) =>
        /\ env.cuda = "found" =>
             (ret.kind = "return" /\ ret.val = StrTarget("cuda"))
        /\ (env.cuda # "found" /\ env.hip = "found") =>
             (ret.kind = "return" /\ ret.val = StrTarget("hip"))
        /\ (env.cuda # "found" /\ env.hip # "found") =>
             (ret.kind = "raise" /\ ret.val = StrTarget("ValueError"))
        /\ ret.kind = "raise" => ret.val.v \notin ProbeOutcomes

\* the CUDA lookup raises, the ROCm lookup succeeds: "hip"
C8_Witness ==
    /\ ret.op = "determine_target" /\ ret.arg = StrTarget("auto")
    /\ env.cuda = "RuntimeError" /\ env.hip = "found"
    /\ ret.kind = "return" /\ ret.val = StrTarget("hip")

\* C9: for every x other than "auto", determine_target(x) returns x
\* unchanged without probing when x is "cuda", "hip" or a target descriptor,
\* and fails for every other x; it never returns anything else.
C9_OtherTargets ==
    (ret.op = "determine_target" /\ ret.arg # StrTarget("auto")) =>
        /\ IF ret.arg.type = "Target"
              \/ ret.arg \in {StrTarget("cuda"), StrTarget("hip")}
           THEN ret.kind = "return" /\ ret.val = ret.arg /\ ret.probed = <<>>
           ELSE ret.kind = "raise" /\ ret.val = StrTarget("AssertionError")
        /\ ret.kind = "return" =>
             (ret.val.type = "Target" \/ ret.val \in {StrTarget("cuda"), StrTarget("hip")})

\* determine_target("llvm") fails
C9_Witness ==
    /\ ret.op = "determine_target" /\ ret.arg = StrTarget("llvm")
    /\ ret.kind = "raise"

ConfigFields ==
    {"block_M", "block_N", "block_K", "num_stages", "thread_num",
     "enable_rasteration"}

CartesianConfigs ==
    [block_M : {64, 128, 256}, block_N : {64, 128, 256}, block_K : {32, 64},
     num_stages : {0, 1, 2, 3}, thread_num : {128, 256},
     enable_rasteration : {TRUE, FALSE}]

\* C10: get_configs(M, N, K) with with_roller=False returns exactly 288
\* pairwise distinct configurations, exactly the Cartesian product of the
\* six candidate sets, each with exactly the six fields.
C10_BruteForceConfigs ==
    (ret.op = "get_configs" /\ ~ret.with_roller) =>
        /\ ret.kind = "return"
        /\ Len(ret.val) = 288
        /\ \A i, j \in 1..Len(ret.val) : i # j => ret.val[i] # ret.val[j]
        /\ {ret.val[i] : i \in 1..Len(ret.val)} = CartesianConfigs
        /\ \A i \in 1..Len(ret.val) : DOMAIN ret.val[i] = ConfigFields

C10_Witness ==
    /\ ret.op = "get_configs" /\ ~ret.with_roller
    /\ ret.arg = <<256, 8192, 256>>
    /\ Len(ret.val) = 288

RECURSIVE ElementsOf(_)
ElementsOf(runs) ==
    IF Len(runs) = 0 THEN 0 ELSE runs[1].n + ElementsOf(Tail(runs))

\* number of elements where |a - b| > atol + rtol * |b|
MismatchedIn(runs, rtol, atol) ==
    ElementsOf(SelectSeq(runs, LAMBDA r :
        Abs(r.a - r.b) * atol.den * rtol.den
            > atol.num * rtol.den + rtol.num * Abs(r.b) * atol.den))

DefaultTolerances ==
    /\ ret.rtol = Frac(1, 100)
    /\ ret.atol = Frac(1, 1000)
    /\ ret.max_mismatched_ratio = Frac(1, 1000)

\* tensor_b is tensor_a with exactly 2% of the elements perturbed by +10
TwoPercentPerturbedByTen ==
    /\ Len(tensors) > 0
    /\ \A i \in 1..Len(tensors) : tensors[i].b \in {tensors[i].a, tensors[i].a + 10}
    /\ 50 * ElementsOf(SelectSeq(tensors, LAMBDA r : r.b = r.a + 10))
          = ElementsOf(tensors)

\* tensor_b is tensor_a with 1 of 100,000 elements perturbed
OneOfHundredThousandPerturbed ==
    /\ ElementsOf(tensors) = 100000
    /\ ElementsOf(SelectSeq(tensors, LAMBDA r : r.b # r.a)) = 1

\* the verdict depends on the mismatch count alone
C11_DecidesOnCount ==
    LET mismatched == MismatchedIn(tensors, ret.rtol, ret.atol)
        total == ElementsOf(tensors)
        allowed == (total * ret.max_mismatched_ratio.num)
                      \div ret.max_mismatched_ratio.den
    IN  /\ (ret.kind = "return" /\ ret.val = TRUE) <=> mismatched <= allowed
        /\ (ret.kind = "raise" /\ ret.val = "AssertionError") <=> mismatched > allowed

\* C11 as stated: torch_assert_close returns true iff mismatched <= allowed
\* = floor(total * max_mismatched_ratio) and fails with AssertionError iff
\* mismatched > allowed; under default tolerances it returns true for a
\* tensor compared with itself, fails when 2% of the elements are perturbed
\* by +10.0, and returns true when 1 of 100,000 elements is perturbed.
C11_AssertCloseAsStated ==
    ret.op = "torch_assert_close" =>
        /\ C11_DecidesOnCount
        /\ DefaultTolerances =>
             /\ (\A i \in 1..Len(tensors) : tensors[i].b = tensors[i].a)
                   => ret.kind = "return"
             /\ TwoPercentPerturbedByTen => ret.kind = "raise"
             /\ OneOfHundredThousandPerturbed => ret.kind = "return"

\* C11 amended: as stated, except that the comparison with 2% of the
\* elements perturbed by +10.0 fails provided 10 exceeds the tolerance
\* atol + rtol * |b| at the perturbed elements (|b| < 999.9 by default).
C11_AssertCloseAmended ==
    ret.op = "torch_assert_close" =>
        /\ C11_DecidesOnCount
        /\ DefaultTolerances =>
             /\ (\A i \in 1..Len(tensors) : tensors[i].b = tensors[i].a)
                   => ret.kind = "return"
             /\ (/\ TwoPercentPerturbedByTen
                 /\ \A i \in 1..Len(tensors) :
                       tensors[i].b # tensors[i].a
                          => 10 * 1000 > 1 + 10 * Abs(tensors[i].b))
                   => ret.kind = "raise"
             /\ OneOfHundredThousandPerturbed => ret.kind = "return"

\* 2 of 100 elements go from 1 to 11: 2 mismatches, none allowed
C11_Witness ==
    /\ ret.op = "torch_assert_close"
    /\ DefaultTolerances
    /\ tensors = << [a |-> 1, b |-> 11, n |-> 2], [a |-> 1, b |-> 1, n |-> 98] >>
    /\ ret.kind = "raise" /\ ret.val = "AssertionError"

Calls(h, e) == Cardinality({i \in 1..Len(h) : h[i] = e})

Entries(stk, s) == Cardinality({i \in 1..Len(stk) : stk[i] = s})

\* every scope entered more often than exited is on the stack, given that
\* no scope was exited more often than it was entered
OpenScopesOnStack ==
    (\A s \in Scopes : Calls(hist, <<"exit", s>>) <= Calls(hist, <<"enter", s>>))
        => \A s \in Scopes :
              Calls(hist, <<"enter", s>>) > Calls(hist, <<"exit", s>>)
                 => Entries(stack, s) > 0

\* an exit of s leaves the entries of every other scope as they are
ExitKeepsOtherScopes ==
    \A s \in Scopes :
        hist' = Append(hist, <<"exit", s>>) =>
           /\ \A t \in Scopes \ {s} : Entries(stack', t) = Entries(stack, t)
           /\ stack' # stack => (stack = Append(stack', s))

\* C12: after any sequence of enter and exit calls, in any order, in which
\* each scope is exited at most as often as it was entered, every scope
\* entered and not yet exited is on the stack; and an exit never removes an
\* entry of a scope other than the one exiting.
C12_OpenScopesStayOnStack ==
    []OpenScopesOnStack /\ [][ExitKeepsOtherScopes]_vars

\* enter 1, enter 2, enter 3, exit 2 (not the top), exit 3: scope 1 is open
\* and on the stack, below the entry that the exit of 2 left behind
C12_Witness ==
    /\ hist = << <<"enter", 1>>, <<"enter", 2>>, <<"enter", 3>>,
                 <<"exit", 2>>, <<"exit", 3>> >>
    /\ stack = <<1, 2>>
    /\ closed = [s \in Scopes |-> IF s \in {2, 3} THEN 1 ELSE 0]

(* --------------------------- specifications ---------------------------- *)

NoEnv == [cuda |-> "found", hip |-> "found"]

Init ==
    /\ obj = [s \in Scopes |-> SampleObject(s)]
    /\ stack = <<>>
    /\ entered = [s \in Scopes |-> 0]
    /\ closed = [s \in Scopes |-> 0]
    /\ hist = <<>>
    /\ ret = NoRet
    /\ env = NoEnv
    /\ kcall = [blocks |-> <<>>, threads |-> IntThreads(DefaultThreads), prelude |-> None]
    /\ launch = NoCall
    /\ tensors = NoTensors

Next ==
    \/ \E s \in Scopes : Enter(s)
    \/ \E s \in Scopes : Exit(s)
    \/ Current

Spec == Init /\ [][Next]_vars

KernelInit ==
    /\ obj = [s \in Scopes |-> NoObject]
    /\ stack = <<>>
    /\ entered = [s \in Scopes |-> 0]
    /\ closed = [s \in Scopes |-> 0]
    /\ hist = <<>>
    /\ ret = NoRet
    /\ env = NoEnv
    /\ kcall = [blocks |-> <<>>, threads |-> IntThreads(DefaultThreads), prelude |-> None]
    /\ launch = NoCall
    /\ tensors = NoTensors

KernelNext ==
    \/ \E b \in BlockArgs, t \in ThreadArgs, p \in Preludes : Kernel(1, b, t, p)
    \/ Enter(1)
    \/ Exit(1)

SpecKernel == KernelInit /\ [][KernelNext]_vars

CallsInit ==
    /\ obj = [s \in Scopes |-> NoObject]
    /\ stack = <<>>
    /\ entered = [s \in Scopes |-> 0]
    /\ closed = [s \in Scopes |-> 0]
    /\ hist = <<>>
    /\ ret = NoRet
    /\ env \in [cuda : ProbeOutcomes, hip : ProbeOutcomes]
    /\ kcall = [blocks |-> <<>>, threads |-> IntThreads(DefaultThreads), prelude |-> None]
    /\ launch = NoCall
    /\ tensors = NoTensors

CallsNext ==
    \/ \E t \in TargetArgs : DetermineTarget(t)
    \/ \E M \in Dims, N \in Dims, K \in Dims :
          GetConfigs(M, N, K, FALSE, RollerAbsent)
    \/ \E M \in Dims, N \in Dims, K \in Dims, r \in RollerOutcomes :
          GetConfigs(M, N, K, TRUE, r)

SpecCalls == CallsInit /\ [][CallsNext]_vars

CloseInit ==
    /\ obj = [s \in Scopes |-> NoObject]
    /\ stack = <<>>
    /\ entered = [s \in Scopes |-> 0]
    /\ closed = [s \in Scopes |-> 0]
    /\ hist = <<>>
    /\ ret = NoRet
    /\ env = NoEnv
    /\ kcall = [blocks |-> <<>>, threads |-> IntThreads(DefaultThreads), prelude |-> None]
    /\ launch = NoCall
    /\ tensors \in TensorPairs

CloseNext ==
    \E t \in Tolerances, r \in Ratios : TorchAssertClose(t.rtol, t.atol, r)

SpecClose == CloseInit /\ [][CloseNext]_vars

====
